---- MODULE Spec2Model ----
(***************************************************************************)
(* TransactionManager of smapp (src/unnamed/part_002): the per-account     *)
(* stores, the merge of transaction updates, the paginated backfill, the   *)
(* live subscriptions and the publish operations, as one state machine.    *)
(* JavaScript is single-threaded: every action below is one synchronous    *)
(* run of a handler up to its next await; what follows an await is a       *)
(* pending task that a later action completes.                             *)
(***************************************************************************)
EXTENDS Integers, Sequences, FiniteSets, TLC

VARIABLES
    keychain,       \* this.keychain: sequence of keypairs (named by their address)
    accountStates,  \* this.accountStates: the store of each address that has one
    durable,        \* what the stores persisted (a new AccountStateManager loads it)
    unsubs,         \* this.unsubs: address -> the stream kinds whose cancel callbacks are listed
    txStateStream,  \* this.txStateStream: address -> the handle of its tx-status stream
    leaked,         \* live streams no list refers to any more: <<address, kind>> -> how many
    tasks,          \* the awaits in flight (queries, persistence, publish steps)
    timer,          \* the one debounce timer of subscribeTransactions: its argument, or NoTimer
    emitted,        \* the UI notifications sent by the last step
    last,           \* the last step: what ran, for which address, with which input
    remote,         \* the remote: the totalResults it reports, the errors it may still return
    hist,           \* history of the backfill runs: per address the queries answered and the records handed over
    calls,          \* how many user operations and pushes were made (bounds the exploration)
    tracked,        \* history: the addresses given to addAccount since the last setAccounts
    ret             \* what the last publish operation returned

vars == <<keychain, accountStates, durable, unsubs, txStateStream, leaked, tasks,
          timer, emitted, last, remote, hist, calls, tracked, ret>>

(***************************************************************************)
(* Values                                                                  *)
(***************************************************************************)
Undef == "undefined"
NoTimer == "NoTimer"
Addrs == {"a1", "a2"}
StreamKinds == {"mesh", "account", "watch", "reward"}

GRPC_QUERY_BATCH_SIZE == 2   \* the page size (scaled down)
MaxTotal == 5                \* the largest totalResults the remote reports
MaxFaults == 7               \* the most error responses the remote gives in one behaviour
MaxOps == 2                  \* the most user operations in one behaviour
MaxPushes == 1               \* the most stream pushes in one behaviour
RetryLimit == 5              \* lines 319 and 374: retries < 5

\* The status enum: only its order is known (pending < processed < the
\* terminal ones), and the members are distinct numbers.
TxState == [PENDING |-> 1, PROCESSED |-> 2, SUCCESS |-> 3, FAILURE |-> 4, INVALID |-> 5]
Statuses == DOMAIN TxState
Terminal == {"SUCCESS", "FAILURE", "INVALID"}

\* a > b on two statuses as JavaScript evaluates it: false when either is undefined
JsGt(a, b) == a \in Statuses /\ b \in Statuses /\ TxState[a] > TxState[b]

\* An object is a function from its own keys; {} is the empty one.
EmptyObj == [k \in {} |-> Undef]
NoReceipt == EmptyObj
Get(o, k) == IF k \in DOMAIN o THEN o[k] ELSE Undef
GetReceipt(o) == IF "receipt" \in DOMAIN o THEN o["receipt"] ELSE NoReceipt
GetLayer(o) == IF "layer" \in DOMAIN o THEN o["layer"] ELSE 0
\* { ...a, ...b }
Spread(a, b) == b @@ a

(***************************************************************************)
(* upsertTransaction, lines 274-286: the record handed to the store        *)
(***************************************************************************)
updatedTxKeepsLower(originalTx, tx) ==
    LET receipt == IF GetReceipt(tx) # NoReceipt
                   THEN Spread(GetReceipt(originalTx), GetReceipt(tx))
                   ELSE GetReceipt(originalTx)
        status == IF JsGt(Get(originalTx, "status"), Get(tx, "status"))
                  THEN originalTx["status"]
                  ELSE Get(tx, "status")
    IN  Spread(Spread(originalTx, tx), [status |-> status, receipt |-> receipt])

updatedTxNoGuard(originalTx, tx) ==
    LET receipt == IF GetReceipt(tx) # NoReceipt
                   THEN Spread(GetReceipt(originalTx), GetReceipt(tx))
                   ELSE GetReceipt(originalTx)
    IN  Spread(Spread(originalTx, tx), [status |-> Get(tx, "status"), receipt |-> receipt])

updatedTx(originalTx, tx) ==
    LET receipt == IF GetReceipt(tx) # NoReceipt
                   THEN Spread(GetReceipt(originalTx), GetReceipt(tx))
                   ELSE GetReceipt(originalTx)
        status == IF /\ JsGt(Get(originalTx, "status"), "PROCESSED")
                     /\ JsGt(Get(originalTx, "status"), Get(tx, "status"))
                  THEN originalTx["status"]
                  ELSE Get(tx, "status")
    IN  Spread(Spread(originalTx, tx), [status |-> status, receipt |-> receipt])

(***************************************************************************)
(* AccountStateManager (the store of one account; its code is not part of  *)
(* the sources, it is modelled from the specification, section 4.1)        *)
(***************************************************************************)
EmptyStore == [txs |-> EmptyObj, state |-> 0, rewards |-> <<>>]
getTxs(store) == store.txs
\* none is read as undefined; { ...undefined } spreads nothing
getTxById(store, id) == IF id \in DOMAIN store.txs THEN store.txs[id] ELSE EmptyObj
\* insert-or-update, keyed by the record's id (a missing id is the key "undefined")
storeTransaction(store, tx) == [store EXCEPT !.txs = (Get(tx, "id") :> tx) @@ store.txs]
storeState(store, v) == [store EXCEPT !.state = v]
storeRewardAppend(store, reward) == [store EXCEPT !.rewards = Append(store.rewards, reward)]
Max(S) == IF S = {} THEN 0 ELSE CHOOSE x \in S : \A y \in S : y <= x
lastSyncedTxLayer(store) == Max({GetLayer(store.txs[k]) : k \in DOMAIN store.txs})
lastSyncedRewardsLayer(store) == Max({store.rewards[i] : i \in DOMAIN store.rewards})

(***************************************************************************)
(* The manager's fields as one value s, so that a handler that calls       *)
(* another is the composition of the two.                                  *)
(***************************************************************************)
NoHist == [queries |-> <<>>, handed |-> <<>>]

S == [keychain |-> keychain, accountStates |-> accountStates, durable |-> durable,
      unsubs |-> unsubs, txStateStream |-> txStateStream, leaked |-> leaked,
      tasks |-> tasks, timer |-> timer, hist |-> hist, ret |-> ret,
      broken |-> remote.broken,
      emitted |-> {}, stored |-> <<>>, raised |-> {}, log |-> <<>>, again |-> {}]

HasStore(s, a) == a \in DOMAIN s.accountStates

\* what a handler does to the outside, in the order it does it: a
\* notification sent, a query sent, a stream opened
Did(s, e, what, a) == [s EXCEPT !.log = Append(@, [e |-> e, what |-> what, a |-> a])]

\* lines 100-102
appStateUpdater(s, channel, a) ==
    Did([s EXCEPT !.emitted = @ \cup {[channel |-> channel, address |-> a]}],
        "send", channel, a)

\* lines 105-124; each reads this.accountStates[address] and throws a TypeError
\* when it is gone: the callers below decide what the throw does
updateAppStateAccount(s, a) == appStateUpdater(s, "T_M_UPDATE_ACCOUNT", a)
updateAppStateTxs(s, a) == appStateUpdater(s, "T_M_UPDATE_TXS", a)
updateAppStateRewards(s, a) == appStateUpdater(s, "T_M_UPDATE_REWARDS", a)

\* lines 155-167, the call: (re)arms the one timer with this argument
subscribeTransactions(s, a) == [s EXCEPT !.timer = a]

\* lines 126-133, up to the promise: the store is called at once; the promise
\* resolves or rejects later (task "storeTx")
storeTxNotifiesAtOnce(s, a, tx) ==
    LET st == storeTransaction(s.accountStates[a], tx)
    IN  updateAppStateTxs([s EXCEPT !.accountStates[a] = st, !.durable[a] = st,
                                    !.stored = Append(@, tx),
                                    !.tasks = @ \cup {[k |-> "storeTx", a |-> a]}], a)

storeTx(s, a, tx) ==
    LET st == storeTransaction(s.accountStates[a], tx)
    IN  [s EXCEPT !.accountStates[a] = st, !.durable[a] = st,
                  !.stored = Append(@, tx),
                  !.tasks = @ \cup {[k |-> "storeTx", a |-> a]}]

\* lines 135-142, up to the promise
storeReward(s, a, reward) ==
    LET st == storeRewardAppend(s.accountStates[a], reward)
    IN  [s EXCEPT !.accountStates[a] = st, !.durable[a] = st,
                  !.tasks = @ \cup {[k |-> "storeReward", a |-> a]}]

\* lines 274-286 on the store of the account: the record to store for tx
mergedInto(store, tx) == updatedTx(getTxById(store, Get(tx, "id")), tx)

\* lines 270-287, up to the await of storeTx
upsertTransactionOverwrites(s, a, tx) ==
    IF ~HasStore(s, a) THEN s
    ELSE storeTx(s, a, updatedTx(EmptyObj, tx))

upsertTransaction(s, a, tx) ==
    IF ~HasStore(s, a) THEN s
    ELSE storeTx(s, a, mergedInto(s.accountStates[a], tx))

\* lines 339-356
updateAccountData(s, a, v) ==
    IF ~HasStore(s, a) THEN s
    ELSE LET st == storeState(s.accountStates[a], v)
         IN  updateAppStateAccount([s EXCEPT !.accountStates[a] = st, !.durable[a] = st], a)

\* an error leaves the running handler uncaught (from names where it was thrown)
Raised(s, from) == [s EXCEPT !.raised = @ \cup {from}]
\* a catch took what was thrown below it (lines 130, 139, 225)
Caught(s) == [s EXCEPT !.raised = {}]

\* lines 385-394, for a reward that has the required fields; storeReward
\* (line 136) reads the store unchecked: it throws a TypeError when the store
\* is gone, and nothing is changed
addReward(s, a, reward) ==
    IF ~HasStore(s, a) THEN Raised(s, "storeReward") ELSE storeReward(s, a, reward)

\* lines 303-318 and 358-373, 396-410: the first query of a retrieval is sent
startHistoric(s, a, offset) ==
    Did([s EXCEPT !.tasks = @ \cup {[k |-> "hist", a |-> a, offset |-> offset, retries |-> 0]},
                  !.hist[a] = NoHist],
        "query", "hist", a)
startAccountData(s, a, origin) ==
    Did([s EXCEPT !.tasks = @ \cup {[k |-> "acct", a |-> a, retries |-> 0, origin |-> origin]}],
        "query", "acct", a)
startRewards(s, a, offset) ==
    Did([s EXCEPT !.tasks = @ \cup {[k |-> "rewards", a |-> a, offset |-> offset,
                                     retries |-> RetryLimit, got |-> <<>>]}],
        "query", "rewards", a)

\* a cancel callback is called once more (2 stands for twice or more)
Cancelled(h) == [h EXCEPT !.calls = IF @ < 2 THEN @ + 1 ELSE 2]
\* the cancel callback of the tx-status stream of a is called (lines 161 and
\* 171); again: it had been called before
cancelTxStateStream(s, a) ==
    IF a \notin DOMAIN s.txStateStream THEN s
    ELSE [s EXCEPT !.txStateStream[a] = Cancelled(@),
                   !.again = IF s.txStateStream[a].calls > 0 THEN @ \cup {a} ELSE @]
openStream(s, a, kind) == Did([s EXCEPT !.unsubs[a] = Append(@, kind)], "open", kind, a)

\* lines 169-232
subscribeAccount(s, a) ==
    LET store == s.accountStates[a]
        s1 == cancelTxStateStream(s, a)
        s2 == openStream(startHistoric(s1, a, lastSyncedTxLayer(store)), a, "mesh")
        s3 == openStream(startAccountData(s2, a, "subscribe"), a, "account")
        s4 == openStream(s3, a, "watch")
        s5 == IF DOMAIN getTxs(store) # {} THEN subscribeTransactions(s4, a) ELSE s4
        s6 == startRewards(s5, a, lastSyncedRewardsLayer(store))
    IN  openStream(s6, a, "reward")

\* lines 241-249: findIndex, then the two slices and the keypair appended
IndexOf(kc, kp) ==
    IF \E i \in DOMAIN kc : kc[i] = kp
    THEN CHOOSE i \in DOMAIN kc : kc[i] = kp /\ \A j \in 1..(i - 1) : kc[j] # kp
    ELSE 0

keychainWith(kc, kp) ==
    LET j == IndexOf(kc, kp)   \* idx + 1
    IN  IF j = 0 THEN Append(kc, kp)
        ELSE Append((IF j - 2 >= 1 THEN SubSeq(kc, 1, j - 2) ELSE <<>>)
                    \o (IF j + 1 <= Len(kc) THEN SubSeq(kc, j + 1, Len(kc)) ELSE <<>>), kp)

\* the streams a list held and that were never cancelled stay live when the
\* list is replaced
Dropped(s, a) ==
    IF a \in DOMAIN s.unsubs
    THEN [p \in DOMAIN s.leaked |->
            s.leaked[p] + Cardinality({i \in DOMAIN s.unsubs[a] : p = <<a, s.unsubs[a][i]>>})]
    ELSE s.leaked

\* lines 234-261
addAccountSubscribesFirst(s, kp) ==
    LET a == kp
        s1 == [s EXCEPT !.keychain = keychainWith(@, kp),
                        !.accountStates = (a :> s.durable[a]) @@ @]
        s3 == [s1 EXCEPT !.leaked = Dropped(s1, a), !.unsubs = (a :> <<>>) @@ @]
    IN  updateAppStateRewards(updateAppStateTxs(subscribeAccount(s3, a), a), a)

\* new AccountStateManager (line 250) is not guarded: when it throws, the
\* keychain has been updated and nothing else of addAccount is done
addAccount(s, kp) ==
    LET a == kp
        s1 == [s EXCEPT !.keychain = keychainWith(@, kp),
                        !.accountStates = (a :> s.durable[a]) @@ @]
        s2 == updateAppStateRewards(updateAppStateTxs(s1, a), a)
        s3 == [s2 EXCEPT !.leaked = Dropped(s2, a), !.unsubs = (a :> <<>>) @@ @]
    IN  IF a \in s.broken
        THEN Raised([s EXCEPT !.keychain = keychainWith(@, kp)], "AccountStateManager")
        ELSE subscribeAccount(s3, a)

\* lines 92-97: every listed callback is called, the lists are dropped
unsubscribeAllStreams(s) == [s EXCEPT !.unsubs = EmptyObj]

RECURSIVE forEachAddAccount(_, _)
forEachAddAccount(s, accounts) ==
    IF accounts = <<>> \/ s.raised # {} THEN s
    ELSE forEachAddAccount(addAccount(s, Head(accounts)), Tail(accounts))

\* lines 263-268
setAccountsKeepsStores(s, accounts) ==
    forEachAddAccount([unsubscribeAllStreams(s) EXCEPT !.keychain = <<>>], accounts)

setAccounts(s, accounts) ==
    forEachAddAccount([unsubscribeAllStreams(s) EXCEPT !.keychain = <<>>,
                                                       !.accountStates = EmptyObj],
                      accounts)

(***************************************************************************)
(* The remote and the inputs                                               *)
(***************************************************************************)
TxIds == {"t1", "t2"}
Notes == {"n1", "n2"}
MeshLayer == 1

\* the i-th transaction (from 0) the mesh service holds for an account
MeshTxId(i) == "m" \o ToString(i)
MeshRecord(i) == [id |-> MeshTxId(i), hasLayerId |-> TRUE, layer |-> MeshLayer]
\* an item that is null
NullItem == EmptyObj

\* toTx and toTxState are not part of the sources: a record with the
\* transaction's id and the given status (none for null)
toTx(id, state) == [id |-> id, status |-> state]
\* toTxState(TxState.PROCESSED, result): the terminal status of a result
ResultStatus == [ok |-> "SUCCESS", failed |-> "FAILURE", invalid |-> "INVALID"]

Commit(s, op, a, arg) ==
    /\ keychain' = s.keychain
    /\ accountStates' = s.accountStates
    /\ durable' = s.durable
    /\ unsubs' = s.unsubs
    /\ txStateStream' = s.txStateStream
    /\ leaked' = s.leaked
    /\ tasks' = s.tasks
    /\ timer' = s.timer
    /\ hist' = s.hist
    /\ ret' = s.ret
    /\ emitted' = s.emitted
    /\ last' = [op |-> op, a |-> a, arg |-> arg, stored |-> s.stored, raised |-> s.raised,
                log |-> s.log, again |-> s.again]
    /\ tracked' = IF op = "addAccount" THEN tracked \cup {a}
                  ELSE IF op = "setAccounts" THEN {arg[i] : i \in DOMAIN arg}
                  ELSE tracked

Done(s, t) == [s EXCEPT !.tasks = @ \ {t}]

Live(s, a, kind) ==
    \/ a \in DOMAIN s.unsubs /\ \E i \in DOMAIN s.unsubs[a] : s.unsubs[a][i] = kind
    \/ s.leaked[<<a, kind>>] > 0

(***************************************************************************)
(* The user's operations                                                   *)
(***************************************************************************)
AddAccount(kp, maxOps) ==
    /\ calls.ops < maxOps
    /\ Commit(addAccount(S, kp), "addAccount", kp, <<>>)
    /\ calls' = [calls EXCEPT !.ops = @ + 1]
    /\ UNCHANGED remote

SetAccounts(accounts, maxOps) ==
    /\ calls.ops < maxOps
    /\ Commit(setAccounts(S, accounts), "setAccounts", "", accounts)
    /\ calls' = [calls EXCEPT !.ops = @ + 1]
    /\ UNCHANGED remote

\* a caller hands tx to upsertTransaction(a), lines 270-287 (inFlight: the
\* persistence of an earlier record of the account has not settled yet)
Upsert(a, tx) ==
    /\ HasStore(S, a)
    /\ Commit(upsertTransaction(S, a, tx), "upsertTransaction", a,
              [id |-> Get(tx, "id"), status |-> Get(tx, "status"),
               inFlight |-> [k |-> "storeTx", a |-> a] \in tasks])
    /\ UNCHANGED <<remote, calls>>

\* lines 637-648; getTxById on a missing store throws to the caller
updateTxNoteFromFirst(s, a, txId, note) ==
    LET txs == getTxs(s.accountStates[a])
        tx == IF DOMAIN txs # {}
              THEN txs[CHOOSE k \in DOMAIN txs : TRUE]
              ELSE EmptyObj
    IN  upsertTransaction(s, a, Spread(tx, [note |-> note]))

updateTxNote(s, a, txId, note) ==
    LET tx == getTxById(s.accountStates[a], txId)
    IN  upsertTransaction(s, a, Spread(tx, [note |-> note]))

UpdateTxNote(a, txId, note, maxOps) ==
    /\ calls.ops < maxOps
    /\ HasStore(S, a)
    /\ Commit(updateTxNote(S, a, txId, note), "updateTxNote", a,
              [txId |-> txId, note |-> note, existed |-> txId \in DOMAIN getTxs(accountStates[a])])
    /\ calls' = [calls EXCEPT !.ops = @ + 1]
    /\ UNCHANGED remote

(***************************************************************************)
(* What follows an await                                                   *)
(***************************************************************************)
\* lines 129-133, then line 288: the promise of storeTransaction settles; a
\* TypeError of updateAppStateTxs (store gone) lands in the catch
storeTxSettledRejects(s, t, ok) ==
    IF ok /\ HasStore(s, t.a)
    THEN subscribeTransactions(updateAppStateTxs(Done(s, t), t.a), t.a)
    ELSE Raised(Done(s, t), "storeTx")

storeTxSettled(s, t, ok) ==
    LET s1 == IF ok /\ HasStore(s, t.a) THEN updateAppStateTxs(Done(s, t), t.a)
              ELSE Did(Done(s, t), "error", "storeTx", t.a)
    IN  subscribeTransactions(s1, t.a)

StoreTxDone(t, ok) ==
    /\ t \in tasks /\ t.k = "storeTx"
    /\ Commit(storeTxSettled(S, t, ok), "storeTxDone", t.a, ok)
    /\ UNCHANGED <<remote, calls>>

\* lines 138-142
storeRewardSettled(s, t, ok) ==
    IF ok /\ HasStore(s, t.a) THEN updateAppStateRewards(Done(s, t), t.a)
    ELSE Did(Done(s, t), "error", "storeReward", t.a)

StoreRewardDone(t, ok) ==
    /\ t \in tasks /\ t.k = "storeReward"
    /\ Commit(storeRewardSettled(S, t, ok), "storeRewardDone", t.a, ok)
    /\ UNCHANGED <<remote, calls>>

\* lines 155-167, the debounced callback; getTxs on a missing store throws
debounced(s) ==
    LET pk == s.timer
        s1 == cancelTxStateStream([s EXCEPT !.timer = NoTimer], pk)
    IN  IF ~HasStore(s, pk) THEN Raised([s EXCEPT !.timer = NoTimer], "subscribeTransactions")
        ELSE [s1 EXCEPT !.txStateStream =
                 (pk :> [ids |-> DOMAIN getTxs(s.accountStates[pk]), calls |-> 0]) @@ @]

DebounceFire ==
    /\ timer # NoTimer
    /\ Commit(debounced(S), "subscribeTransactions", timer, <<>>)
    /\ UNCHANGED <<remote, calls>>

\* lines 291-301, for an item tx.meshTransaction of a page or a push
upsertTransactionFromMeshAnyLayer(s, a, tx) ==
    IF tx = NullItem \/ tx.id = Undef THEN s
    ELSE upsertTransaction(s, a,
             Spread(toTx(tx.id, Undef),
                    IF tx.layer # 0 THEN [layer |-> tx.layer] ELSE EmptyObj))

upsertTransactionFromMesh(s, a, tx) ==
    IF tx = NullItem \/ tx.id = Undef \/ ~tx.hasLayerId THEN s
    ELSE upsertTransaction(s, a,
             Spread(toTx(tx.id, Undef),
                    IF tx.layer # 0 THEN [layer |-> tx.layer] ELSE EmptyObj))

RECURSIVE forEachMesh(_, _, _)
forEachMesh(s, a, data) ==
    IF data = <<>> THEN s
    ELSE forEachMesh(upsertTransactionFromMesh(s, a, Head(data)), a, Tail(data))

\* the page the mesh service returns at an offset
PageAt(offset, total) ==
    LET n == IF total - offset < GRPC_QUERY_BATCH_SIZE THEN total - offset
             ELSE GRPC_QUERY_BATCH_SIZE
    IN  [i \in 1..(IF n > 0 THEN n ELSE 0) |-> MeshRecord(offset + i - 1)]

Ids(data) == [i \in DOMAIN data |-> Get(data[i], "id")]
Logged(s, t, data, error) ==
    [s EXCEPT !.hist[t.a] = [queries |-> Append(@.queries, [offset |-> t.offset, error |-> error]),
                             handed |-> @.handed \o Ids(data)]]

\* totalResults of an answer that carries none (undefined): a comparison
\* with it is false (lines 328 and 423)
NoTotal == -1
LtTotal(x, totalResults) == totalResults # NoTotal /\ x < totalResults
LeTotal(totalResults, y) == totalResults # NoTotal /\ totalResults <= y

\* lines 314-337, from the answer of requestMeshTransactions on
retrieveHistoricTxDataSkipsOnError(s, t, data, totalResults, error) ==
    IF error /\ t.retries < RetryLimit
    THEN [Done(s, t) EXCEPT !.tasks = @ \cup
             {[t EXCEPT !.offset = @ + GRPC_QUERY_BATCH_SIZE, !.retries = @ + 1]}]
    ELSE LET s1 == forEachMesh(Logged(Done(s, t), t, data, error), t.a, data)
         IN  IF LtTotal(t.offset + GRPC_QUERY_BATCH_SIZE, totalResults)
             THEN [s1 EXCEPT !.tasks = @ \cup
                      {[t EXCEPT !.offset = @ + GRPC_QUERY_BATCH_SIZE, !.retries = 0]}]
             ELSE s1

retrieveHistoricTxData(s, t, data, totalResults, error) ==
    IF error /\ t.retries < RetryLimit
    THEN [Logged(Done(s, t), t, <<>>, error) EXCEPT
             !.tasks = @ \cup {[t EXCEPT !.retries = @ + 1]}]
    ELSE LET s1 == forEachMesh(Logged(Done(s, t), t, data, error), t.a, data)
         IN  IF LtTotal(t.offset + GRPC_QUERY_BATCH_SIZE, totalResults)
             THEN [s1 EXCEPT !.tasks = @ \cup
                      {[t EXCEPT !.offset = @ + GRPC_QUERY_BATCH_SIZE, !.retries = 0]}]
             ELSE s1

\* the mesh service answers a query: the page and the total, or an error
\* (no data) that carries errTotal as its totalResults
HistAnswered(t, data, totalResults, error) ==
    /\ t \in tasks /\ t.k = "hist"
    /\ error => remote.faults > 0
    /\ Commit(retrieveHistoricTxData(S, t, data, totalResults, error),
              "retrieveHistoricTxData", t.a,
              [offset |-> t.offset, error |-> error, data |-> data])
    /\ remote' = IF error THEN [remote EXCEPT !.faults = @ - 1] ELSE remote
    /\ UNCHANGED calls

HistResponse(t, error, errTotal) ==
    HistAnswered(t, IF error THEN <<>> ELSE PageAt(t.offset, remote.total),
                 IF error THEN errTotal ELSE remote.total, error)

\* lines 370-382, from the answer of sendAccountDataQuery on
retrieveAccountDataRetriesOn(s, t, data, error) ==
    IF error
    THEN [Done(s, t) EXCEPT !.tasks = @ \cup {[t EXCEPT !.retries = @ + 1]}]
    ELSE IF data # <<>> THEN updateAccountData(Done(s, t), t.a, data[1]) ELSE Done(s, t)

retrieveAccountData(s, t, data, error) ==
    IF error /\ t.retries < RetryLimit
    THEN [Done(s, t) EXCEPT !.tasks = @ \cup {[t EXCEPT !.retries = @ + 1]}]
    ELSE IF data # <<>> THEN updateAccountData(Done(s, t), t.a, data[1]) ELSE Done(s, t)

\* the global-state service answers an account query: one account snapshot,
\* no data, or an error (no data)
Versions == {1, 2}
AcctResponse(t, data, error) ==
    /\ t \in tasks /\ t.k = "acct"
    /\ error => remote.faults > 0 /\ data = <<>>
    /\ Commit(retrieveAccountData(S, t, data, error), "retrieveAccountData", t.a,
              [origin |-> t.origin, error |-> error])
    /\ remote' = IF error THEN [remote EXCEPT !.faults = @ - 1] ELSE remote
    /\ UNCHANGED calls

RECURSIVE forEachReward(_, _, _)
forEachReward(s, a, rewards) ==
    IF rewards = <<>> THEN s
    ELSE forEachReward(addReward(s, a, Head(rewards)), a, Tail(rewards))

\* the rewards the global-state service returns at an offset: their layers
RewardsAt(offset, total) ==
    LET n == IF total - offset < GRPC_QUERY_BATCH_SIZE THEN total - offset
             ELSE GRPC_QUERY_BATCH_SIZE
    IN  [i \in 1..(IF n > 0 THEN n ELSE 0) |-> offset + i]

\* lines 407-434 and 224, from the answer of sendAccountDataQuery on: got is
\* what the outer calls of the recursion hold to prepend
retrieveRewards(s, t, data, totalResults, error) ==
    IF error /\ t.retries > 0
    THEN [Done(s, t) EXCEPT !.tasks = @ \cup {[t EXCEPT !.retries = @ - 1]}]
    ELSE IF LeTotal(totalResults, GRPC_QUERY_BATCH_SIZE)
         THEN Caught(forEachReward(Done(s, t), t.a, t.got \o data))
         ELSE [Done(s, t) EXCEPT !.tasks = @ \cup
                  {[t EXCEPT !.offset = @ + GRPC_QUERY_BATCH_SIZE, !.retries = RetryLimit,
                             !.got = @ \o data]}]

RewardsResponse(t, error, errTotal) ==
    /\ t \in tasks /\ t.k = "rewards"
    /\ t.offset <= MaxTotal
    /\ error => remote.faults > 0
    /\ Commit(IF error
              THEN retrieveRewards(S, t, <<>>, errTotal, TRUE)
              ELSE retrieveRewards(S, t, RewardsAt(t.offset, remote.rewards),
                                   remote.rewards, FALSE),
              "retrieveRewards", t.a, [offset |-> t.offset, error |-> error])
    /\ remote' = IF error THEN [remote EXCEPT !.faults = @ - 1] ELSE remote
    /\ UNCHANGED calls

(***************************************************************************)
(* The pushes of the live streams: a stream that was cancelled is silent   *)
(***************************************************************************)
Pushed(s, op, a, arg, maxPushes) ==
    /\ calls.pushes < maxPushes
    /\ Commit(s, op, a, arg)
    /\ calls' = [calls EXCEPT !.pushes = @ + 1]
    /\ UNCHANGED remote

\* lines 183, 175
PushMesh(a, tx, maxPushes) ==
    /\ Live(S, a, "mesh")
    /\ Pushed(upsertTransactionFromMesh(S, a, tx), "listenMeshTransactions", a, tx, maxPushes)

\* lines 197-201
PushAccount(a, v, maxPushes) ==
    /\ Live(S, a, "account")
    /\ Pushed(updateAccountData(S, a, v), "activateAccountDataStream", a, v, maxPushes)

\* lines 205-214, for a push that has a transaction
watched(s, a, id, result, layer) ==
    upsertTransaction(s, a, Spread(toTx(id, ResultStatus[result]), [layer |-> layer]))

PushWatch(a, id, result, layer, maxPushes) ==
    /\ Live(S, a, "watch")
    /\ Pushed(watched(S, a, id, result, layer), "watchTransactionsByAddress", a,
              [id |-> id, status |-> ResultStatus[result]], maxPushes)

\* lines 230, 222
PushReward(a, reward, maxPushes) ==
    /\ Live(S, a, "reward")
    /\ Pushed(addReward(S, a, reward), "listenRewardsByCoinbase", a, reward, maxPushes)

\* lines 144-153: a push of the transaction id (none: no transaction) in state
\* state (none: no transaction state)
handleNewTx(s, a, id, state) ==
    IF id = Undef \/ state = Undef THEN s ELSE upsertTransaction(s, a, toTx(id, state))

PushTxState(a, id, state, maxPushes) ==
    /\ a \in DOMAIN txStateStream
    /\ txStateStream[a].calls = 0
    /\ id \in txStateStream[a].ids \cup {Undef}
    /\ Pushed(handleNewTx(S, a, id, state), "activateTxStream", a,
              [id |-> id, status |-> state], maxPushes)

(***************************************************************************)
(* publishSelfSpawn (lines 458-535) and publishSpendTx (lines 537-635):    *)
(* three awaits in a row, each a pending task "publish" at that stage      *)
(***************************************************************************)
NoTx == EmptyObj             \* tx: null
NoError == "null"            \* error: null
Returned(s, op, error, tx) == [s EXCEPT !.ret = [op |-> op, error |-> error, tx |-> tx]]

\* lines 460-474 and 546-564, up to the await of getGenesisID: a keypair or
\* a store that is missing throws a TypeError into the catch (lines 528, 628)
published(s, op, method, accountIndex, note) ==
    IF \/ accountIndex + 1 \notin DOMAIN s.keychain
       \/ ~HasStore(s, s.keychain[accountIndex + 1])
    THEN Returned(s, op, "TypeError", NoTx)
    ELSE [s EXCEPT !.tasks = @ \cup
             {[k |-> "publish", op |-> op, method |-> method,
               a |-> s.keychain[accountIndex + 1], note |-> note,
               stage |-> "getGenesisID", error |-> NoError, id |-> Undef, state |-> Undef]}]

publishSelfSpawn(s, accountIndex) == published(s, "publishSelfSpawn", 0, accountIndex, Undef)
publishSpendTx(s, accountIndex, note) == published(s, "publishSpendTx", 1, accountIndex, note)

\* lines 475-481 and 565-571: the genesis id is known, submitTransaction is called
genesisKnown(s, t) ==
    [Done(s, t) EXCEPT !.tasks = @ \cup {[t EXCEPT !.stage = "submitTransaction"]}]

\* lines 486-489 and 576-579: the error of a response (id none: txstate null,
\* or txstate without id)
responseErrorOnlyWithoutId(response) ==
    IF response.id = Undef THEN "getTxResponseError" ELSE NoError

responseError(response) ==
    IF response.error # NoError \/ response.id = Undef
    THEN IF response.error # NoError THEN response.error ELSE "getTxResponseError"
    ELSE NoError

\* lines 482-490 and 572-581: the response is in, getCurrentLayer is called
submitted(s, t, response) ==
    [Done(s, t) EXCEPT !.tasks = @ \cup
        {[t EXCEPT !.stage = "getCurrentLayer", !.error = responseError(response),
                   !.id = IF response.error = NoError THEN response.id ELSE Undef,
                   !.state = response.state]}]

\* lines 493-514 and 583-612: the "initial" record, or null (of its fields
\* the id, the method, the principal, the status, the layer and the note)
composedTxEvenWithoutId(t, currentLayer) ==
    IF t.error \notin {NoError, "getTxResponseError"} THEN NoTx
    ELSE Spread([id |-> t.id, method |-> t.method, principal |-> t.a,
                 status |-> t.state, layer |-> currentLayer],
                IF t.note # Undef THEN [note |-> t.note] ELSE EmptyObj)

composedTx(t, currentLayer) ==
    IF t.id = Undef THEN NoTx
    ELSE Spread([id |-> t.id, method |-> t.method, principal |-> t.a,
                 status |-> t.state, layer |-> currentLayer],
                IF t.note # Undef THEN [note |-> t.note] ELSE EmptyObj)

\* lines 491-527 and 582-627: the current layer is known; the record is
\* upserted if there is one, the account is queried, the result is returned
layerKnown(s, t, currentLayer) ==
    LET tx == composedTx(t, currentLayer)
        s1 == IF tx # NoTx THEN upsertTransaction(Done(s, t), t.a, tx) ELSE Done(s, t)
        s2 == startAccountData(s1, t.a, IF t.id = Undef THEN "publishNoId" ELSE "publish")
    IN  Returned(s2, t.op, t.error, tx)

\* lines 528-534 and 628-634: an await rejected, the catch returns the error
rejected(s, t) == Returned(Done(s, t), t.op, "rejected", NoTx)

PublishArg(stage, t) == [stage |-> stage, hasId |-> t.id # Undef]

PublishSelfSpawn(accountIndex, maxOps) ==
    /\ calls.ops < maxOps
    /\ Commit(publishSelfSpawn(S, accountIndex), "publishSelfSpawn", "",
              [stage |-> "called", hasId |-> FALSE])
    /\ calls' = [calls EXCEPT !.ops = @ + 1]
    /\ UNCHANGED remote

PublishSpendTx(accountIndex, note, maxOps) ==
    /\ calls.ops < maxOps
    /\ Commit(publishSpendTx(S, accountIndex, note), "publishSpendTx", "",
              [stage |-> "called", hasId |-> FALSE])
    /\ calls' = [calls EXCEPT !.ops = @ + 1]
    /\ UNCHANGED remote

GenesisResponse(t) ==
    /\ t \in tasks /\ t.k = "publish" /\ t.stage = "getGenesisID"
    /\ Commit(genesisKnown(S, t), t.op, t.a, PublishArg("getGenesisID", t))
    /\ UNCHANGED <<remote, calls>>

\* what submitTransaction answers: an error or none, a transaction id or
\* none, and the state of the transaction
Responses ==
    [error : {NoError, "rpc"}, id : {Undef, "p1"}, state : {"PENDING"}]

SubmitResponse(t, response) ==
    /\ t \in tasks /\ t.k = "publish" /\ t.stage = "submitTransaction"
    /\ Commit(submitted(S, t, response), t.op, t.a,
              [stage |-> "submitTransaction",
               hasId |-> response.error = NoError /\ response.id # Undef])
    /\ UNCHANGED <<remote, calls>>

LayerResponse(t, currentLayer) ==
    /\ t \in tasks /\ t.k = "publish" /\ t.stage = "getCurrentLayer"
    /\ Commit(layerKnown(S, t, currentLayer), t.op, t.a, PublishArg("getCurrentLayer", t))
    /\ UNCHANGED <<remote, calls>>

PublishRejected(t) ==
    /\ t \in tasks /\ t.k = "publish"
    /\ remote.faults > 0
    /\ Commit(rejected(S, t), t.op, t.a, PublishArg("rejected", t))
    /\ remote' = [remote EXCEPT !.faults = @ - 1]
    /\ UNCHANGED calls

(***************************************************************************)
(* The state after construction (lines 61-90), for a remote that reports   *)
(* total mesh transactions and rewards and may return faults errors        *)
(***************************************************************************)
ConstructedWith(total, rewards, faults, broken) ==
    /\ keychain = <<>>
    /\ accountStates = EmptyObj
    /\ durable = [a \in Addrs |-> EmptyStore]
    /\ unsubs = EmptyObj
    /\ txStateStream = EmptyObj
    /\ leaked = [p \in Addrs \X StreamKinds |-> 0]
    /\ tasks = {}
    /\ timer = NoTimer
    /\ emitted = {}
    /\ last = [op |-> "constructor", a |-> "", arg |-> <<>>, stored |-> <<>>, raised |-> {},
               log |-> <<>>, again |-> {}]
    /\ remote = [total |-> total, rewards |-> rewards, faults |-> faults, broken |-> broken]
    /\ hist = [a \in Addrs |-> NoHist]
    /\ calls = [ops |-> 0, pushes |-> 0]
    /\ tracked = {}
    /\ ret = [op |-> "none", error |-> NoError, tx |-> NoTx]

\* ... and whose stores all load
Constructed(total, rewards, faults) == ConstructedWith(total, rewards, faults, {})

(***************************************************************************)
(* SpecMerge: one account, and upsertTransaction called with every shape   *)
(* of update for one transaction id, back to back (no persistence settles  *)
(* and no query is answered in between)                                    *)
(***************************************************************************)
Receipts == {[fee |-> 1], [fee |-> 2]}
Field(k, v, none) == IF v = none THEN EmptyObj ELSE (k :> v)
MergeUpdates ==
    { [id |-> "t1"] @@ Field("status", st, Undef) @@ Field("layer", ly, 0)
                    @@ Field("note", nt, Undef) @@ Field("receipt", rc, NoReceipt) :
        st \in Statuses \cup {Undef}, ly \in {0, 1}, nt \in Notes \cup {Undef},
        rc \in Receipts \cup {NoReceipt} }

InitMerge == Constructed(0, 0, 0)
NextMerge ==
    \/ AddAccount("a1", 1)
    \/ \E tx \in MergeUpdates : Upsert("a1", tx)
SpecMerge == InitMerge /\ [][NextMerge]_vars

(***************************************************************************)
(* Claims C1-C3: the merge of upsertTransaction                            *)
(***************************************************************************)
\* the record account a stores under id (none: the empty object)
Rec(a, id) == IF a \in DOMAIN accountStates THEN getTxById(accountStates[a], id) ELSE EmptyObj
\* the record a store holds under id after upsertTransaction merged and stored
\* u1 and then u2
AfterBoth(store, id, u1, u2) ==
    LET first == storeTransaction(store, mergedInto(store, u1))
    IN  getTxById(storeTransaction(first, mergedInto(first, u2)), id)

\* u1 and u2 carry the same value for every field, and every receipt field,
\* that both carry (the status aside)
AgreeWhereBoth(u1, u2) ==
    /\ \A k \in (DOMAIN u1 \cap DOMAIN u2) \ {"status", "receipt"} : u1[k] = u2[k]
    /\ \A k \in DOMAIN GetReceipt(u1) \cap DOMAIN GetReceipt(u2) :
          GetReceipt(u1)[k] = GetReceipt(u2)[k]

\* C1 as claimed: for every store state and every two updates of one
\* transaction id, upserting them in either order leaves the same stored record.
C1_AnyOrderSameRecord ==
    \A a \in DOMAIN accountStates : \A u1, u2 \in MergeUpdates :
        AfterBoth(accountStates[a], "t1", u1, u2) = AfterBoth(accountStates[a], "t1", u2, u1)

\* C1 amended: the two orders leave the same stored record when the two
\* updates agree on every field both carry and their statuses are equal, or
\* both defined with a terminal status among the stored and the two incoming.
C1_SameRecordWhenCompatible ==
    \A a \in DOMAIN accountStates : \A u1, u2 \in MergeUpdates :
            ( /\ AgreeWhereBoth(u1, u2)
              /\ \/ Get(u1, "status") = Get(u2, "status")
                 \/ /\ Get(u1, "status") \in Statuses
                    /\ Get(u2, "status") \in Statuses
                    /\ {Get(Rec(a, "t1"), "status"), u1["status"], u2["status"]}
                          \cap Terminal # {} )
            => AfterBoth(accountStates[a], "t1", u1, u2)
                 = AfterBoth(accountStates[a], "t1", u2, u1)

\* C1 witness: a second update was merged onto a stored record of the same id
\* (its status came from an earlier update, its other fields were carried over)
C1_Witness ==
    /\ last.op = "upsertTransaction" /\ last.arg.status = "PROCESSED"
    /\ Get(Rec("a1", "t1"), "status") = "FAILURE"
    /\ Get(Rec("a1", "t1"), "note") = "n1"
    /\ GetReceipt(Rec("a1", "t1")) = [fee |-> 2]

\* C2 as claimed: once the stored record of an id has a terminal status, no
\* upsertTransaction for that id changes its status.
C2_TerminalStatusIsFinal ==
    [][ Get(Rec("a1", "t1"), "status") \in Terminal
        => Get(Rec("a1", "t1"), "status")' = Get(Rec("a1", "t1"), "status") ]_vars

\* C3 as claimed: an incoming status ranked strictly below the stored one
\* leaves the stored status in place.
C3_LowerIncomingKeepsStored ==
    [][ ( /\ last'.op = "upsertTransaction"
          /\ JsGt(Get(Rec("a1", "t1"), "status"), last'.arg.status) )
        => Get(Rec("a1", "t1"), "status")' = Get(Rec("a1", "t1"), "status") ]_vars

\* C3 amended: an incoming status ranked strictly below a stored terminal
\* status (success, failure, invalid) leaves the stored status in place; a
\* stored "processed" merged with an incoming "pending" becomes "pending".
C3_LowerIncomingKeepsTerminal ==
    [][ /\ ( /\ last'.op = "upsertTransaction"
             /\ Get(Rec("a1", "t1"), "status") \in Terminal
             /\ JsGt(Get(Rec("a1", "t1"), "status"), last'.arg.status) )
           => Get(Rec("a1", "t1"), "status")' = Get(Rec("a1", "t1"), "status")
        /\ ( /\ last'.op = "upsertTransaction"
             /\ Get(Rec("a1", "t1"), "status") = "PROCESSED"
             /\ last'.arg.status = "PENDING" )
           => Get(Rec("a1", "t1"), "status")' = "PENDING" ]_vars

\* C3 witness: a "pending" update was merged onto a record stored as "success"
C3_Witness ==
    /\ last.op = "upsertTransaction" /\ last.arg.status = "PENDING"
    /\ Get(Rec("a1", "t1"), "status") = "SUCCESS"

(***************************************************************************)
(* SpecNote: one account, status updates of one transaction, updateTxNote  *)
(* for an id that may or may not be stored, and what follows the awaits    *)
(***************************************************************************)
NoteUpdates == { toTx("t1", st) : st \in {"PENDING", "SUCCESS"} }

InitNote == Constructed(0, 0, 0)
NextNote ==
    \/ AddAccount("a1", 1)
    \/ \E tx \in NoteUpdates : Upsert("a1", tx)
    \/ \E txId \in TxIds, note \in Notes : UpdateTxNote("a1", txId, note, MaxOps)
    \/ \E t \in tasks, ok \in BOOLEAN : StoreTxDone(t, ok)
    \/ DebounceFire
SpecNote == InitNote /\ [][NextNote]_vars

\* C8: updateTxNote for an id that is not stored hands the store one record
\* whose only defined field is the note (no id, no status, no receipt, nothing
\* of any stored record), through upsertTransaction: the store is called and
\* its promise is pending, and when it resolves txs-updated is sent.
C8_NoteOnlyRecord ==
    /\ (last.op = "updateTxNote" /\ ~last.arg.existed)
       => /\ Len(last.stored) = 1
          /\ DOMAIN last.stored[1] = {"note", "status", "receipt"}
          /\ last.stored[1]["note"] = last.arg.note
          /\ last.stored[1]["status"] = Undef
          /\ last.stored[1]["receipt"] = NoReceipt
          /\ getTxById(accountStates[last.a], Undef) = last.stored[1]
          /\ [k |-> "storeTx", a |-> last.a] \in tasks
    /\ (last.op = "storeTxDone" /\ last.arg /\ last.a \in DOMAIN accountStates)
       => [channel |-> "T_M_UPDATE_TXS", address |-> last.a] \in emitted

\* C8 witness: the note of an unknown id was stored while another record,
\* with an id and a status, was in the store
C8_Witness ==
    /\ last.op = "updateTxNote" /\ ~last.arg.existed
    /\ Get(Rec("a1", "t1"), "status") = "SUCCESS"

(***************************************************************************)
(* SpecPage: one account added once, its backfill from offset 0 against a  *)
(* remote that reports any total up to MaxTotal and fails up to MaxFaults  *)
(* times, and what follows the awaits of the stores                        *)
(***************************************************************************)
InitPage == \E total \in 0..MaxTotal : Constructed(total, 0, MaxFaults)
NextPage ==
    \/ AddAccount("a1", 1)
    \/ \E t \in tasks, error \in BOOLEAN, errTotal \in {0, remote.total} :
          HistResponse(t, error, errTotal)
    \/ \E t \in tasks, ok \in BOOLEAN : StoreTxDone(t, ok)
    \/ DebounceFire
SpecPage == InitPage /\ [][NextPage]_vars

Queries(a) == hist[a].queries
ErrorsAt(a, offset, upTo) ==
    Cardinality({i \in 1..upTo : Queries(a)[i].offset = offset /\ Queries(a)[i].error})
\* the retry budget ran out at the i-th query: it is an error after RetryLimit retries
ExhaustedAt(a, i) ==
    Queries(a)[i].error /\ ErrorsAt(a, Queries(a)[i].offset, i) > RetryLimit
Succeeded(a) == SelectSeq(Queries(a), LAMBDA q : ~q.error)
Running(a) == \E t \in tasks : t.k = "hist" /\ t.a = a
\* the offsets 0, P, 2P, ... below total (offset 0 is always asked)
PageOffsets(total) ==
    {0} \cup {o \in 0..total : o < total /\ o % GRPC_QUERY_BATCH_SIZE = 0}
\* the ids of the records 0 .. n-1, in order
FirstIds(n) == [i \in 1..n |-> MeshTxId(i - 1)]
Min(x, y) == IF x < y THEN x ELSE y

\* C4: in a backfill from offset 0 where no offset runs out of retries, the
\* successful queries are at 0, P, 2P, ... in this order, each once, and the
\* handler got the records of exactly these pages, each once; when the
\* backfill has ended they are all the offsets below totalResults and all
\* the records. No offset that was answered is queried again.
C4_PagesOnceInOrder ==
    LET q == Queries("a1")
        ok == Succeeded("a1")
    IN  /\ \A i, j \in DOMAIN q : (i < j /\ ~q[i].error) => q[j].offset # q[i].offset
        /\ (\A i \in DOMAIN q : ~ExhaustedAt("a1", i))
           => /\ \A i \in DOMAIN ok : ok[i].offset = (i - 1) * GRPC_QUERY_BATCH_SIZE
              /\ hist["a1"].handed
                   = FirstIds(Min(remote.total, Len(ok) * GRPC_QUERY_BATCH_SIZE))
              /\ (q # <<>> /\ ~Running("a1"))
                 => /\ {ok[i].offset : i \in DOMAIN ok} = PageOffsets(remote.total)
                    /\ Len(hist["a1"].handed) = remote.total

\* C4 witness: total 5 with pages of 2; the page at offset 2 failed twice and
\* then succeeded; the backfill has ended
C4_Witness ==
    /\ remote.total = 5 /\ ~Running("a1")
    /\ Queries("a1") = << [offset |-> 0, error |-> FALSE], [offset |-> 2, error |-> TRUE],
                          [offset |-> 2, error |-> TRUE], [offset |-> 2, error |-> FALSE],
                          [offset |-> 4, error |-> FALSE] >>

\* C5 as claimed: once the retries of an offset are used up, no query is made
\* at a higher offset, and the records the earlier pages delivered stay stored.
C5_StopsAfterExhaustion ==
    \A i \in DOMAIN Queries("a1") :
        ExhaustedAt("a1", i)
        => /\ \A j \in DOMAIN Queries("a1") :
                 j > i => Queries("a1")[j].offset <= Queries("a1")[i].offset
           /\ \A t \in tasks : (t.k = "hist" /\ t.a = "a1") => t.offset <= Queries("a1")[i].offset
           /\ \A k \in DOMAIN hist["a1"].handed :
                 hist["a1"].handed[k] \in DOMAIN getTxs(accountStates["a1"])

(***************************************************************************)
(* Spec: the manager with two keypairs: addAccount and setAccounts in any  *)
(* order, the answers of the queries they start, the pushes of the live    *)
(* streams, the settling of the stores' promises and the debounce timer    *)
(***************************************************************************)
KeyLists == {<<>>, <<"a1">>, <<"a1", "a1">>}

Init == Constructed(1, 1, 1)
Next ==
    \/ AddAccount("a1", MaxOps)
    \/ \E accounts \in KeyLists : SetAccounts(accounts, MaxOps)
    \/ \E t \in tasks, error \in BOOLEAN, errTotal \in {0, remote.total} :
          HistResponse(t, error, errTotal)
    \/ \E t \in tasks, data \in {<<>>, <<1>>}, error \in BOOLEAN :
          AcctResponse(t, data, error)
    \/ \E t \in tasks, error \in BOOLEAN, errTotal \in {0, remote.rewards} :
          RewardsResponse(t, error, errTotal)
    \/ \E t \in tasks, ok \in BOOLEAN : StoreTxDone(t, ok)
    \/ \E t \in tasks, ok \in BOOLEAN : StoreRewardDone(t, ok)
    \/ DebounceFire
    \/ \E a \in Addrs : PushAccount(a, 2, MaxPushes)
    \/ \E a \in Addrs : PushMesh(a, MeshRecord(0), MaxPushes)
    \/ \E a \in Addrs : PushWatch(a, MeshTxId(0), "ok", MeshLayer, MaxPushes)
    \/ \E a \in Addrs : PushReward(a, 1, MaxPushes)
    \/ \E a \in Addrs : PushTxState(a, MeshTxId(0), "PENDING", MaxPushes)
Spec == Init /\ [][Next]_vars

\* the live streams of one kind of an address: the listed ones and the ones
\* no list refers to; of the tx-status kind, the handle not yet cancelled
LiveCount(a, kind) ==
    IF kind = "txState"
    THEN IF a \in DOMAIN txStateStream /\ txStateStream[a].calls = 0 THEN 1 ELSE 0
    ELSE leaked[<<a, kind>>]
         + (IF a \in DOMAIN unsubs
            THEN Cardinality({i \in DOMAIN unsubs[a] : unsubs[a][i] = kind})
            ELSE 0)

\* C6: no notification names an address that is not tracked: once
\* setAccounts has dropped an address (setAccounts([]) drops all), whatever
\* is still in flight for it - answers of queries, pushes, settling stores,
\* the debounce timer - sends nothing that refers to it.
C6_NoNotificationForRemoved ==
    \A n \in emitted : n.address \in tracked

\* C6 witness: the persistence of a transaction of an address settled
\* successfully after setAccounts had dropped the address
C6_Witness ==
    /\ last.op = "storeTxDone" /\ last.arg
    /\ last.a \notin tracked

\* C9 as claimed, for the streams the manager holds a handle of: after
\* setAccounts every tx-status stream that existed has been cancelled, and
\* after setAccounts([]) no listed stream and no tx-status stream is live.
C9_SetAccountsCancelsAll ==
    last.op = "setAccounts"
    => /\ \A a \in DOMAIN txStateStream : txStateStream[a].calls > 0
       /\ last.arg = <<>> => unsubs = EmptyObj

\* C10 as claimed: for every address and stream kind at most one live
\* subscription exists, in every reachable state.
C10_OneLiveStreamPerKind ==
    \A a \in Addrs, kind \in StreamKinds \cup {"txState"} : LiveCount(a, kind) <= 1

(***************************************************************************)
(* SpecPublish: one account, publishSelfSpawn and publishSpendTx against a *)
(* remote whose submitTransaction answers with or without an id, the       *)
(* answers of the account queries, setAccounts([]) at any point, and what  *)
(* follows the awaits of the stores                                        *)
(***************************************************************************)
InitPublish == Constructed(0, 0, 1)
NextPublish ==
    \/ AddAccount("a1", 1)
    \/ SetAccounts(<<>>, MaxOps + 1)
    \/ \E accountIndex \in {0, 1} : PublishSelfSpawn(accountIndex, MaxOps + 1)
    \/ \E accountIndex \in {0, 1}, note \in {Undef, "n1"} :
          PublishSpendTx(accountIndex, note, MaxOps + 1)
    \/ \E t \in tasks : GenesisResponse(t)
    \/ \E t \in tasks, response \in Responses : SubmitResponse(t, response)
    \/ \E t \in tasks : LayerResponse(t, MeshLayer)
    \/ \E t \in tasks : PublishRejected(t)
    \/ \E t \in tasks, data \in {<<>>} \cup {<<v>> : v \in Versions}, error \in BOOLEAN :
          AcctResponse(t, data, error)
    \/ \E t \in tasks, ok \in BOOLEAN : StoreTxDone(t, ok)
    \/ DebounceFire
SpecPublish == InitPublish /\ [][NextPublish]_vars

PublishOps == {"publishSelfSpawn", "publishSpendTx"}
\* the step that ends a publish operation whose response had no transaction id
EndsWithoutId == last'.op \in PublishOps /\ last'.arg = [stage |-> "getCurrentLayer", hasId |-> FALSE]
\* the step that handles the answer of the account query such an operation sent
FollowUpWithoutId == last'.op = "retrieveAccountData" /\ last'.arg.origin = "publishNoId"

\* C7 as claimed: a publish operation whose response has no transaction id
\* returns a non-null error and a null tx, and neither it nor the work it
\* started changes the stores (transactions, rewards, balance/nonce snapshot).
C7_NoIdLeavesStoreAsItWas ==
    [][ /\ EndsWithoutId
           => /\ ret'.error # NoError /\ ret'.tx = NoTx
              /\ accountStates' = accountStates
        /\ FollowUpWithoutId => accountStates' = accountStates ]_vars

\* C7 amended: a publish operation whose response has no transaction id
\* returns a non-null error and a null tx, changes no store, sends no
\* notification and starts only the query of the account; the answer of that
\* query may replace the balance/nonce snapshot, and leaves the transactions
\* and the rewards of every store as they were.
C7_NoIdKeepsTxsAndRewards ==
    [][ /\ EndsWithoutId
           => /\ ret'.op = last'.op /\ ret'.error # NoError /\ ret'.tx = NoTx
              /\ accountStates' = accountStates /\ durable' = durable
              /\ emitted' = {}
              /\ tasks' \ tasks \subseteq
                    {[k |-> "acct", a |-> last'.a, retries |-> 0, origin |-> "publishNoId"]}
        /\ FollowUpWithoutId
           => /\ DOMAIN accountStates' = DOMAIN accountStates
              /\ \A a \in DOMAIN accountStates :
                    /\ accountStates'[a].txs = accountStates[a].txs
                    /\ accountStates'[a].rewards = accountStates[a].rewards ]_vars

\* C7 witness: after a publish that stored its transaction, a publish whose
\* response had no id returned its error, and the answer of the account
\* query it sent replaced the snapshot
C7_Witness ==
    /\ last.op = "retrieveAccountData" /\ last.arg.origin = "publishNoId" /\ ~last.arg.error
    /\ ret.error = "getTxResponseError" /\ ret.tx = NoTx
    /\ "a1" \in DOMAIN accountStates
    /\ accountStates["a1"].state = 2
    /\ "p1" \in DOMAIN getTxs(accountStates["a1"])

(***************************************************************************)
(* Claims C11, C12 (Spec): what the handlers of asynchronous work do       *)
(***************************************************************************)
\* the steps that run on behalf of asynchronous work, named by their handler
AsyncOps ==
    {"storeTxDone", "storeRewardDone", "subscribeTransactions",
     "retrieveHistoricTxData", "retrieveAccountData", "retrieveRewards",
     "listenMeshTransactions", "activateAccountDataStream",
     "watchTransactionsByAddress", "listenRewardsByCoinbase", "activateTxStream"}

\* C11 as claimed: a handler of asynchronous work that runs for an address
\* whose store is gone changes no store and raises no error (it checks the
\* store first and discards its result).
C11_GoneStoreIsCheckedFirst ==
    [][ (last'.op \in AsyncOps /\ last'.a \notin DOMAIN accountStates)
        => /\ accountStates' = accountStates
           /\ durable' = durable
           /\ last'.raised = {} ]_vars

TxsUpdated(a) == [channel |-> "T_M_UPDATE_TXS", address |-> a]

\* C12: txs-updated is sent for an address only by the step in which a
\* storeTransaction promise of that address resolves (and by addAccount, which
\* sends the cached transactions); the step that calls the store and leaves
\* the promise pending sends none, and a promise that rejects sends none.
C12_TxsUpdatedAfterPersisted ==
    /\ \A a \in Addrs :
          TxsUpdated(a) \in emitted
          => \/ last.op \in {"addAccount", "setAccounts"}
             \/ last.op = "storeTxDone" /\ last.arg /\ last.a = a
    /\ (last.op = "storeTxDone" /\ ~last.arg) => emitted = {}
    /\ (last.stored # <<>> /\ last.op \notin {"addAccount", "setAccounts"})
       => /\ [k |-> "storeTx", a |-> last.a] \in tasks
          /\ TxsUpdated(last.a) \notin emitted

\* C12 witness: the persistence of the one transaction of a store resolved
\* and txs-updated was sent for its address
C12_Witness ==
    /\ last.op = "storeTxDone" /\ last.arg
    /\ TxsUpdated(last.a) \in emitted
    /\ Cardinality(DOMAIN getTxs(accountStates[last.a])) = 1

(***************************************************************************)
(* Claims C13, C14 (SpecPublish): what a publish operation stores and      *)
(* returns                                                                 *)
(***************************************************************************)
\* C13 as claimed: when submitTransaction has answered without error and
\* with a transaction id, the step that ends the operation - whatever the
\* await of getCurrentLayer brings - leaves in the account's store (if the
\* account still has one) a record of that id with the submission's status.
C13_SubmittedIsStored ==
    [][ \A t \in tasks :
          ( /\ t.k = "publish" /\ t.stage = "getCurrentLayer" /\ t.id # Undef
            /\ t \notin tasks'
            /\ t.a \in DOMAIN accountStates' )
          => /\ t.id \in DOMAIN getTxs(accountStates'[t.a])
             /\ getTxs(accountStates'[t.a])[t.id]["status"] = t.state ]_vars

\* C14: a publish operation always returns a result (what it throws is
\* caught); the result has a record as tx exactly when its error is null;
\* the error is null exactly when the three awaits resolved and the response
\* of submitTransaction had no error and had a transaction id.
C14_ExactlyOneOfErrorAndTx ==
    /\ ret.op # "none" => (ret.tx # NoTx <=> ret.error = NoError)
    /\ last.op \in PublishOps
       => /\ last.arg.stage = "called"
             => \/ \E t \in tasks : t.k = "publish" /\ t.op = last.op
                \/ ret.op = last.op /\ ret.error # NoError
          /\ last.arg.stage = "rejected" => (ret.op = last.op /\ ret.error # NoError)
          /\ last.arg.stage = "getCurrentLayer"
             => /\ ret.op = last.op
                /\ ret.error = NoError <=> last.arg.hasId

\* C14 witness: a publish operation returned the record of the submitted
\* transaction and no error
C14_Witness ==
    /\ last.op \in PublishOps /\ last.arg.stage = "getCurrentLayer"
    /\ ret.error = NoError
    /\ ret.tx # NoTx
    /\ ret.tx["id"] = "p1"

(***************************************************************************)
(* Claim C15 (Spec): the order of what addAccount does                     *)
(***************************************************************************)
\* C15: addAccount first sends txs-updated and rewards-updated for the
\* address, and only then sends its three queries (transactions, account,
\* rewards) and opens its four streams; nothing else is sent by it.
C15_CachedStateSentFirst ==
    last.op = "addAccount"
    => /\ Len(last.log) = 9
       /\ last.log[1] = [e |-> "send", what |-> "T_M_UPDATE_TXS", a |-> last.a]
       /\ last.log[2] = [e |-> "send", what |-> "T_M_UPDATE_REWARDS", a |-> last.a]
       /\ \A i \in 3..9 : last.log[i].e \in {"query", "open"} /\ last.log[i].a = last.a
       /\ {last.log[i].what : i \in {j \in 3..9 : last.log[j].e = "query"}}
             = {"hist", "acct", "rewards"}
       /\ {last.log[i].what : i \in {j \in 3..9 : last.log[j].e = "open"}} = StreamKinds

\* C15 witness: addAccount ran for an address whose store held a cached
\* transaction
C15_Witness ==
    /\ last.op = "addAccount"
    /\ DOMAIN getTxs(accountStates[last.a]) # {}

(***************************************************************************)
(* SpecDebounce: two accounts, transactions stored for either of them, the *)
(* settling of the stores' promises and the one debounce timer             *)
(***************************************************************************)
DebounceUpdates == { toTx(id, "PENDING") : id \in TxIds }

InitDebounce == Constructed(0, 0, 0)
NextDebounce ==
    \/ \E kp \in Addrs : AddAccount(kp, MaxOps)
    \/ \E a \in Addrs, tx \in DebounceUpdates : Upsert(a, tx)
    \/ \E t \in tasks, ok \in BOOLEAN : StoreTxDone(t, ok)
    \/ DebounceFire
SpecDebounce == InitDebounce /\ [][NextDebounce]_vars

\* nothing is left that would store a transaction or fire the timer
Settled == timer = NoTimer /\ \A t \in tasks : t.k # "storeTx"

\* C16 as claimed, at the point where the resubscription has to have
\* happened: when no persistence is pending and no timer is armed, every
\* tracked account that has stored transactions has a live tx-status stream
\* made with exactly the ids of its store.
C16_EveryAccountResubscribed ==
    Settled
    => \A a \in DOMAIN accountStates :
          DOMAIN getTxs(accountStates[a]) # {}
          => /\ a \in DOMAIN txStateStream
             /\ txStateStream[a].calls = 0
             /\ txStateStream[a].ids = DOMAIN getTxs(accountStates[a])

(***************************************************************************)
(* SpecRetry: one account added once; the answers, errors included, to its *)
(* three retrying queries                                                  *)
(***************************************************************************)
InitRetry == Constructed(0, 0, MaxFaults)
NextRetry ==
    \/ AddAccount("a1", 1)
    \/ \E t \in tasks, error \in BOOLEAN : HistResponse(t, error, 0)
    \/ \E t \in tasks, error \in BOOLEAN : AcctResponse(t, <<>>, error)
    \/ \E t \in tasks, error \in BOOLEAN : RewardsResponse(t, error, 0)
SpecRetry == InitRetry /\ [][NextRetry]_vars

\* the number of the attempt a query in flight is at its offset (the first
\* is 1): retrieveHistoricTxData and retrieveAccountData count retries up
\* from 0, getAccountDataQuery of retrieveRewards counts them down from 5
Attempt(t) == IF t.k = "rewards" THEN RetryLimit - t.retries + 1 ELSE t.retries + 1
RetryingQueries == {t \in tasks : t.k \in {"hist", "acct", "rewards"}}

\* C17 as claimed: no retrying query makes more than 5 attempts at one offset.
C17_AtMostFiveAttempts ==
    \A t \in RetryingQueries : Attempt(t) <= 5

\* C17 amended: no retrying query makes more than 6 attempts at one offset
\* (the first and 5 retries), and the sixth attempt is made when the first
\* five all returned an error.
C17_AtMostSixAttempts ==
    /\ \A t \in RetryingQueries : Attempt(t) <= RetryLimit + 1
    /\ \A i \in DOMAIN Queries("a1") :
          ErrorsAt("a1", Queries("a1")[i].offset, i) <= RetryLimit + 1
    /\ \A t \in RetryingQueries :
          (t.k = "hist" /\ t.a = "a1")
          => ErrorsAt("a1", t.offset, Len(Queries("a1"))) = Attempt(t) - 1

\* C17 witness: the account query returned an error for the sixth time and
\* was given up
C17_Witness ==
    /\ last.op = "retrieveAccountData" /\ last.arg.error
    /\ \A t \in tasks : t.k # "acct"
    /\ remote.faults = MaxFaults - (RetryLimit + 1)

(***************************************************************************)
(* SpecRewards: one account added once, against a remote that holds the    *)
(* same number of transactions and of rewards and reports it on every      *)
(* page; the two walks, and what follows the awaits of the stores          *)
(***************************************************************************)
InitRewards == \E total \in 0..MaxTotal : Constructed(total, total, 1)
NextRewards ==
    \/ AddAccount("a1", 1)
    \/ \E t \in tasks, error \in BOOLEAN : HistResponse(t, error, remote.total)
    \/ \E t \in tasks, error \in BOOLEAN : RewardsResponse(t, error, remote.rewards)
    \/ \E t \in tasks, ok \in BOOLEAN : StoreTxDone(t, ok)
    \/ \E t \in tasks, ok \in BOOLEAN : StoreRewardDone(t, ok)
    \/ DebounceFire
SpecRewards == InitRewards /\ [][NextRewards]_vars

\* C18 as claimed: with the same start offset, page size and totalResults the
\* two walks query the same offsets, 0, P, 2P, ... below totalResults, and
\* stop there; when a walk has ended every record was delivered.
C18_SameWalk ==
    /\ \A t \in tasks :
          t.k \in {"hist", "rewards"} => t.offset \in PageOffsets(remote.total)
    /\ (Queries("a1") # <<>> /\ ~Running("a1"))
       => Len(hist["a1"].handed) = remote.total
    /\ ("a1" \in DOMAIN accountStates /\ \A t \in tasks : t.k # "rewards")
       => Len(accountStates["a1"].rewards) = remote.rewards

(***************************************************************************)
(* Stores that fail to load: the manager with no remote data, and any set   *)
(* of addresses whose store cannot be created                               *)
(***************************************************************************)
LoadLists == {<<>>, <<"a1">>, <<"a2">>, <<"a1", "a2">>, <<"a2", "a1">>}

InitLoad == \E broken \in SUBSET Addrs : ConstructedWith(0, 0, 0, broken)

NextLoad ==
    \/ \E kp \in Addrs : AddAccount(kp, MaxOps)
    \/ \E accounts \in LoadLists : SetAccounts(accounts, MaxOps)
    \/ \E t \in tasks : HistResponse(t, FALSE, 0)
    \/ \E t \in tasks : AcctResponse(t, <<>>, FALSE)
    \/ \E t \in tasks : RewardsResponse(t, FALSE, 0)

SpecLoad == InitLoad /\ [][NextLoad]_vars

\* the keypairs of a setAccounts call whose store loads
Loadable(accounts) == {accounts[i] : i \in DOMAIN accounts} \ remote.broken

\* C19: when the store of one keypair of setAccounts(keypairs) cannot be
\* created, no error leaves setAccounts, and every other keypair has its
\* store and its four subscriptions when setAccounts returns
C19_LoadFailureStaysInside ==
    last.op = "setAccounts"
        => /\ last.raised = {}
           /\ \A a \in Loadable(last.arg) :
                /\ a \in DOMAIN accountStates
                /\ a \in DOMAIN unsubs
                /\ Len(unsubs[a]) = 4

(***************************************************************************)
(* SpecInFlight: one account and the updates two paths bring for the same   *)
(* transaction (the record of a submission, the pushes of a stream), with   *)
(* upsertTransaction called again while the persistence of an earlier       *)
(* record is still pending, or after it has settled                         *)
(***************************************************************************)
InFlightUpdates ==
    { [id |-> "t1", status |-> "PENDING", note |-> "n1"],
      [id |-> "t1", status |-> "PROCESSED", layer |-> 1],
      [id |-> "t1", status |-> "SUCCESS", receipt |-> [fee |-> 1]],
      [id |-> "t2", status |-> "PENDING", note |-> "n2"],
      [id |-> "t2", status |-> "FAILURE", receipt |-> [fee |-> 2]] }

InitInFlight == Constructed(0, 0, 0)
NextInFlight ==
    \/ AddAccount("a1", 1)
    \/ \E tx \in InFlightUpdates : Upsert("a1", tx)
    \/ \E t \in tasks, ok \in BOOLEAN : StoreTxDone(t, ok)
    \/ DebounceFire
SpecInFlight == InitInFlight /\ [][NextInFlight]_vars

\* the update of InFlightUpdates with this id and status
SameUpdate(tx, arg) == tx["id"] = arg.id /\ tx["status"] = arg.status

\* C20: an upsertTransaction that runs while the persistence of an earlier
\* record of the account is still pending reads the record the earlier call
\* wrote and writes its merge in the same step: the stored record is the merge
\* of the update onto the latest record of the id, every field and receipt
\* field the earlier record had and the update does not carry is kept, every
\* field the update carries is stored, and the records of other ids stay.
C20_MergeOntoLatestWrite ==
    [][ (last'.op = "upsertTransaction" /\ last'.arg.inFlight)
        => \A tx \in InFlightUpdates : SameUpdate(tx, last'.arg) =>
             LET old == Rec("a1", tx["id"])
                 new == Rec("a1", tx["id"])'
             IN  /\ new = updatedTx(old, tx)
                 /\ \A k \in DOMAIN old \ (DOMAIN tx \cup {"receipt"}) :
                        k \in DOMAIN new /\ new[k] = old[k]
                 /\ \A k \in DOMAIN tx \ {"status", "receipt"} : new[k] = tx[k]
                 /\ \A k \in DOMAIN GetReceipt(old) \ DOMAIN GetReceipt(tx) :
                        k \in DOMAIN GetReceipt(new) /\ GetReceipt(new)[k] = GetReceipt(old)[k]
                 /\ \A k \in DOMAIN GetReceipt(tx) : GetReceipt(new)[k] = GetReceipt(tx)[k]
                 /\ \A id \in TxIds \ {tx["id"]} : Rec("a1", id)' = Rec("a1", id) ]_vars

\* C20 witness: the push of a result was merged while the persistence of the
\* submitted record was pending, and the stored record has the note of the
\* one and the receipt and status of the other
C20_Witness ==
    /\ last.op = "upsertTransaction" /\ last.arg.inFlight
    /\ last.arg.id = "t1" /\ last.arg.status = "SUCCESS"
    /\ Get(Rec("a1", "t1"), "note") = "n1"
    /\ GetReceipt(Rec("a1", "t1")) = [fee |-> 1]
    /\ Get(Rec("a1", "t1"), "status") = "SUCCESS"
    /\ [k |-> "storeTx", a |-> "a1"] \in tasks

(***************************************************************************)
(* SpecReceipt: one account and updates of one transaction whose receipts   *)
(* carry any of two fields, each with a value or with none (null)           *)
(***************************************************************************)
ReceiptKeys == {"gasUsed", "error"}
ReceiptValues == {"r1", "r2", Undef}
ReceiptObjs == UNION { [ks -> ReceiptValues] : ks \in SUBSET ReceiptKeys }
ReceiptUpdates ==
    { [id |-> "t1", status |-> st] @@ Field("receipt", rc, NoReceipt) :
        st \in {"PENDING", "PROCESSED", "SUCCESS"}, rc \in ReceiptObjs }

InitReceipt == Constructed(0, 0, 0)
NextReceipt ==
    \/ AddAccount("a1", 1)
    \/ \E tx \in ReceiptUpdates : Upsert("a1", tx)
SpecReceipt == InitReceipt /\ [][NextReceipt]_vars

\* C21: for every stored record and every update of its id, the receipt of
\* the merged record has every field of the stored receipt, a field has the
\* incoming value when the incoming receipt carries a non-null value for it
\* and the stored value otherwise, and an update without a receipt leaves the
\* stored receipt as it is.
C21_NullNeverErases ==
    \A a \in DOMAIN accountStates : \A tx \in ReceiptUpdates :
        LET old == GetReceipt(Rec(a, "t1"))
            incoming == GetReceipt(tx)
            new == GetReceipt(mergedInto(accountStates[a], tx))
        IN  /\ \A k \in DOMAIN old :
                 /\ k \in DOMAIN new
                 /\ new[k] = IF Get(incoming, k) # Undef THEN incoming[k] ELSE old[k]
            /\ incoming = NoReceipt => new = old

(***************************************************************************)
(* SpecDrop: one account whose mesh stream, tx-status stream and backfill   *)
(* pages bring complete items and items with a part missing                 *)
(***************************************************************************)
DropPushes == 3
MeshItems ==
    { MeshRecord(0),
      NullItem,
      [id |-> Undef, hasLayerId |-> TRUE, layer |-> MeshLayer],
      [id |-> MeshTxId(0), hasLayerId |-> FALSE, layer |-> 0] }
DropPages == {<<>>} \cup { <<i>> : i \in MeshItems } \cup { <<i, j>> : i, j \in MeshItems }

InitDrop == Constructed(0, 0, 0)
NextDrop ==
    \/ AddAccount("a1", 1)
    \/ \E t \in tasks, data \in DropPages : HistAnswered(t, data, Len(data), FALSE)
    \/ \E item \in MeshItems : PushMesh("a1", item, DropPushes)
    \/ \E id \in {MeshTxId(0), Undef}, state \in {"PENDING", Undef} :
          PushTxState("a1", id, state, DropPushes)
    \/ \E t \in tasks, ok \in BOOLEAN : StoreTxDone(t, ok)
    \/ DebounceFire
SpecDrop == InitDrop /\ [][NextDrop]_vars

\* a mesh item that is null, has no transaction id or has no layer id
Malformed(item) == item = NullItem \/ item.id = Undef \/ ~item.hasLayerId
\* the step left the stores, the pending work, the timer and the
\* notifications as they were, handed nothing to a store and raised nothing
Untouched ==
    /\ accountStates' = accountStates /\ durable' = durable
    /\ tasks' = tasks /\ timer' = timer /\ txStateStream' = txStateStream
    /\ emitted' = {}
    /\ last'.log = <<>> /\ last'.stored = <<>> /\ last'.raised = {}

\* C22: a mesh push that is null or lacks the transaction id or the layer id,
\* and a tx-status push that lacks the transaction or its state, changes no
\* store, sends no notification, schedules no resubscription and raises no
\* error; of a backfill page exactly the complete items reach the store, and
\* a page without a complete item changes no store and sends nothing.
C22_IncompleteIsDropped ==
    [][ /\ (last'.op = "listenMeshTransactions" /\ Malformed(last'.arg)) => Untouched
        /\ ( /\ last'.op = "activateTxStream"
             /\ (last'.arg.id = Undef \/ last'.arg.status = Undef) ) => Untouched
        /\ last'.op = "retrieveHistoricTxData"
           => LET data == last'.arg.data
                  complete == SelectSeq(data, LAMBDA i : ~Malformed(i))
              IN  /\ last'.raised = {}
                  /\ Len(last'.stored) = Len(complete)
                  /\ \A i \in DOMAIN complete : last'.stored[i]["id"] = complete[i].id
                  /\ complete = <<>>
                     => /\ accountStates' = accountStates /\ durable' = durable
                        /\ timer' = timer /\ emitted' = {} ]_vars

\* C22 witness: the mesh stream pushed an item without a layer id for a
\* transaction the account already stores, and nothing was handed to the store
C22_Witness ==
    /\ last.op = "listenMeshTransactions"
    /\ last.arg = [id |-> MeshTxId(0), hasLayerId |-> FALSE, layer |-> 0]
    /\ MeshTxId(0) \in DOMAIN getTxs(accountStates["a1"])
    /\ last.stored = <<>>

(***************************************************************************)
(* SpecKeychain: addAccount called for two keypairs in any order, again and *)
(* again, with the answers of the queries it starts                         *)
(***************************************************************************)
KeyOps == 3

InitKeychain == Constructed(0, 0, 0)
NextKeychain ==
    \/ \E kp \in Addrs : AddAccount(kp, KeyOps)
    \/ \E t \in tasks : HistResponse(t, FALSE, 0)
    \/ \E t \in tasks : AcctResponse(t, <<>>, FALSE)
    \/ \E t \in tasks : RewardsResponse(t, FALSE, 0)
SpecKeychain == InitKeychain /\ [][NextKeychain]_vars

\* C23: addAccount(kp) leaves the other keypairs of the keychain in place and
\* in order and has kp last, so the keychain holds every public key that was
\* added exactly once.
C23_KeychainKeepsTheOthers ==
    [][ last'.op = "addAccount"
        => /\ keychain' = Append(SelectSeq(keychain, LAMBDA kp : kp # last'.a), last'.a)
           /\ \A a \in tracked' : Cardinality({i \in DOMAIN keychain' : keychain'[i] = a}) = 1
      ]_vars

(***************************************************************************)
(* SpecFail: one account and a remote that answers every bulk query with an *)
(* error, whose totalResults is absent, 0 or above the page size            *)
(***************************************************************************)
FailFaults == 16
ErrorTotals == {NoTotal, 0, GRPC_QUERY_BATCH_SIZE + 1}

InitFail == Constructed(0, 0, FailFaults)
NextFail ==
    \/ AddAccount("a1", 1)
    \/ \E t \in tasks, errTotal \in ErrorTotals : HistResponse(t, TRUE, errTotal)
    \/ \E t \in tasks : AcctResponse(t, <<>>, TRUE)
    \/ \E t \in tasks, errTotal \in ErrorTotals : RewardsResponse(t, TRUE, errTotal)
SpecFail == InitFail /\ [][NextFail]_vars

RetrievalOf == [hist |-> "retrieveHistoricTxData", acct |-> "retrieveAccountData",
                rewards |-> "retrieveRewards"]
\* the query t was the last one its retrieval may retry
Exhausted(t) == IF t.k = "rewards" THEN t.retries = 0 ELSE t.retries >= RetryLimit
\* the step answered query t
Answered(t) ==
    /\ t \in tasks /\ t \notin tasks'
    /\ t.k \in DOMAIN RetrievalOf /\ last'.op = RetrievalOf[t.k] /\ last'.a = t.a

\* C24: when the remote answers the last retry of a query with an error, the
\* retrieval sends no further query, and retrieveHistoricTxData and
\* retrieveAccountData end with an error for their caller.
C24_ExhaustedRetriesEndInError ==
    [][ \A t \in tasks : (Answered(t) /\ Exhausted(t))
          => /\ \A u \in tasks' : ~(u.k = t.k /\ u.a = t.a)
             /\ t.k \in {"hist", "acct"} => last'.raised # {} ]_vars

(***************************************************************************)
(* SpecPersist: one account with two rewards at the remote, updates of one  *)
(* transaction, and persistence that succeeds or fails                      *)
(***************************************************************************)
InitPersist == Constructed(0, GRPC_QUERY_BATCH_SIZE, 0)
NextPersist ==
    \/ AddAccount("a1", 1)
    \/ \E tx \in NoteUpdates : Upsert("a1", tx)
    \/ \E t \in tasks : RewardsResponse(t, FALSE, 0)
    \/ PushReward("a1", 1, MaxPushes)
    \/ \E t \in tasks, ok \in BOOLEAN : StoreTxDone(t, ok)
    \/ \E t \in tasks, ok \in BOOLEAN : StoreRewardDone(t, ok)
    \/ DebounceFire
SpecPersist == InitPersist /\ [][NextPersist]_vars

\* the step logged exactly one error, from where
LoggedError(where, a) == last'.log = <<[e |-> "error", what |-> where, a |-> a]>>

\* C25: when the persistence of a transaction or of a reward fails, the error
\* is logged and nothing is raised, the in-memory store keeps what it held,
\* no notification is sent, the account can still be reconciled, and after a
\* failed storeTransaction the resubscription of the tx-status feed is
\* scheduled for the account.
C25_PersistenceFailureIsCaught ==
    [][ /\ (last'.op = "storeTxDone" /\ ~last'.arg)
           => /\ last'.raised = {} /\ LoggedError("storeTx", last'.a)
              /\ accountStates' = accountStates /\ emitted' = {}
              /\ timer' = last'.a
        /\ (last'.op = "storeRewardDone" /\ ~last'.arg)
           => /\ last'.raised = {} /\ LoggedError("storeReward", last'.a)
              /\ accountStates' = accountStates /\ emitted' = {}
              /\ timer' = timer
        /\ (last'.op = "upsertTransaction" /\ last'.a \in DOMAIN accountStates)
           => /\ last'.raised = {}
              /\ getTxById(accountStates'[last'.a], last'.arg.id) = last'.stored[1]
              /\ [k |-> "storeTx", a |-> last'.a] \in tasks' ]_vars

\* C25 witness: the persistence of a transaction failed, the record is still
\* in the in-memory store and the resubscription is scheduled
C25_Witness ==
    /\ last.op = "storeTxDone" /\ ~last.arg
    /\ timer = "a1"
    /\ Get(Rec("a1", "t1"), "status") = "SUCCESS"
    /\ emitted = {}

\* C26: the rewards handed to the append operation of an account's store
\* (the ledger the store holds, in the order of the calls) have no layer twice.
C26_RewardAppendedOnce ==
    \A a \in DOMAIN accountStates :
        \A i, j \in DOMAIN accountStates[a].rewards :
            accountStates[a].rewards[i] = accountStates[a].rewards[j] => i = j

\* C27: every record a step hands to storeTransaction has a transaction id
\* and a status, and every record a store holds is filed under its own id.
C27_StoredHasIdAndStatus ==
    /\ \A i \in DOMAIN last.stored :
          /\ Get(last.stored[i], "id") # Undef
          /\ Get(last.stored[i], "status") # Undef
    /\ \A a \in DOMAIN accountStates : \A k \in DOMAIN getTxs(accountStates[a]) :
          /\ k # Undef
          /\ Get(getTxs(accountStates[a])[k], "id") = k

\* C28: no step calls the cancel callback of a stream that had been called
\* before.
C28_HandleCancelledOnce == last.again = {}

(***************************************************************************)
(* SpecSnapshot: one account; the remote produces the account snapshots of  *)
(* Versions in their order (a larger one is more recent); the answer of the *)
(* account query and the one push of the account stream carry any of them   *)
(* and arrive in any order                                                  *)
(***************************************************************************)
InitSnapshot == Constructed(0, 0, 1)
NextSnapshot ==
    \/ AddAccount("a1", 1)
    \/ \E t \in tasks, error \in BOOLEAN : HistResponse(t, error, 0)
    \/ \E t \in tasks, error \in BOOLEAN : RewardsResponse(t, error, 0)
    \/ \E t \in tasks, data \in {<<>>} \cup {<<v>> : v \in Versions}, error \in BOOLEAN :
          AcctResponse(t, data, error)
    \/ \E v \in Versions : PushAccount("a1", v, MaxPushes)
SpecSnapshot == InitSnapshot /\ [][NextSnapshot]_vars

\* C29: no step replaces the snapshot an account's store holds by an older
\* one, so the store ends with the most recent snapshot that was delivered.
C29_SnapshotNeverOlder ==
    [][ \A a \in DOMAIN accountStates \cap DOMAIN accountStates' :
            accountStates'[a].state >= accountStates[a].state ]_vars

====
